---- MODULE Spec2Model ----
(***************************************************************************)
(* Model of the PostHog impact dashboard pipeline:                         *)
(*   fetch_data.py  post_gql (retry loop) and main (paged ingestion),      *)
(*   score.py       the scoring engine and the evidence bullets.           *)
(* Timestamps are ISO strings in the program; here a timestamp is the      *)
(* record of its calendar fields and parsing turns it into seconds.        *)
(* Point values are kept in hundredths of a point (1.3 is 130).            *)
(***************************************************************************)
EXTENDS Integers, Sequences, FiniteSets, TLC

VARIABLES
    \* ---- fetch_data.py ----
    pc,           \* position of fetch_data.main: loop, after_loop, done, fatal_*
    attempt,      \* post_gql: the loop variable of the retry loop
    last_err,     \* post_gql: last_err
    cursor,       \* main: cursor (0 is None, k is the endCursor of page k)
    pages,        \* main: pages
    rows,         \* main: rows
    kept_this_page, \* main: kept_this_page of the last processed page
    hasNextPage,  \* pageInfo.hasNextPage of the last returned page (TRUE before any)
    outFile,      \* data/prs_90d.parquet: [exists, rows]
    fetched,      \* every node returned by a successful page request, in order
    pageCap,      \* the upstream: how many pages it holds at most
    nodeCap,      \* the upstream: how many nodes a page holds at most
    \* ---- score.py ----
    stage,        \* position of score.main: the loop it is in, or done
    idx,          \* index of the next row of the loop being run
    df,           \* the activity table read from DATA_PATH
    review_rows,  \* review_rows / reviews_df
    author_scores,
    author_breakdown,
    author_top_prs,
    reviewer_scores,
    reviewer_top_reviews,
    out,          \* the scored table, rows in output order
    run,          \* which run of score.main over the same table this is
    prev_out      \* the scored table of the run before

fetchVars == <<pc, attempt, last_err, cursor, pages, rows, kept_this_page,
               hasNextPage, outFile, fetched, pageCap, nodeCap>>

scoreVars == <<stage, idx, df, review_rows, author_scores, author_breakdown,
               author_top_prs, reviewer_scores, reviewer_top_reviews, out, run,
               prev_out>>

vars == <<fetchVars, scoreVars>>

\* ---------------------------------------------------------------- bounds
MaxPages == 2      \* pages of the upstream with full-size pages
MaxNodes == 2      \* nodes on a page
LongPages == 11    \* pages of a long upstream whose pages hold one node

\* ------------------------------------------------------------ timestamps
Stamp(d, h, m, s) == [d |-> d, h |-> h, m |-> m, s |-> s]

\* datetime.fromisoformat(s.replace("Z", "+00:00")): seconds since day 0, UTC
iso_to_dt(t) == ((t.d * 24 + t.h) * 60 + t.m) * 60 + t.s

\* pd.to_datetime(..., utc=True): the same instant
to_datetime(t) == ((t.d * 24 + t.h) * 60 + t.m) * 60 + t.s

\* SINCE_DT = now - DAYS, a fixed instant of the run: day 10, 00:00:00
SINCE_DT == ((10 * 24 + 0) * 60 + 0) * 60 + 0

\* ------------------------------------------------------------- post_gql
MAX_RETRIES == 6

\* what one attempt can come to, other than HTTP 200 without "errors"
FailureKinds == {"http_429_5xx", "http_not_200", "graphql_errors", "exception"}

\* the retry loop written as range(1, MAX_RETRIES): one attempt short
LoopExhausted_short(a) == a >= MAX_RETRIES - 1

\* for attempt in range(1, MAX_RETRIES + 1): a is the last value of the range
LoopExhausted(a) == a >= MAX_RETRIES

\* ------------------------------------------------------------- upstream
\* mergedAt of a node: <<>> is null, <<t>> a timestamp
MergedAtValues == {<<>>, <<Stamp(9, 23, 59, 59)>>, <<Stamp(10, 0, 0, 0)>>}

PageContents(n) == UNION {[1..k -> MergedAtValues] : k \in 0..n}

\* the nodes of page p, numbered by page and position
NodesOf(p, stamps) ==
    [i \in 1..Len(stamps) |-> [number |-> 10 * p + i, mergedAt |-> stamps[i]]]

\* ----------------------------------------------------------------- main
\* lines 135-144: a node passes the per-page filter
KeepNode(pr) == pr.mergedAt # <<>> /\ ~(iso_to_dt(pr.mergedAt[1]) < SINCE_DT)

\* lines 160-175: the row appended for a kept node
RowOf(pr) == [number |-> pr.number, mergedAt |-> pr.mergedAt[1]]

RECURSIVE KeptRows_break(_)
\* the per-page loop leaving the page at the first node that fails the filter
KeptRows_break(nodes) ==
    IF nodes = <<>> THEN <<>>
    ELSE IF KeepNode(Head(nodes))
         THEN <<RowOf(Head(nodes))>> \o KeptRows_break(Tail(nodes))
         ELSE <<>>

RECURSIVE KeptRows(_)
\* lines 134-176: the rows one page appends, in page order
KeptRows(nodes) ==
    IF nodes = <<>> THEN <<>>
    ELSE IF KeepNode(Head(nodes))
         THEN <<RowOf(Head(nodes))>> \o KeptRows(Tail(nodes))
         ELSE KeptRows(Tail(nodes))

\* lines 203-204: the final defensive filter
DefensiveFilter(rs) == SelectSeq(rs, LAMBDA r : to_datetime(r.mergedAt) >= SINCE_DT)

\* line 181: a checkpoint is written on every 10th page
CheckpointDue(p) == p % 10 = 0

\* lines 190-192: the loop ends on a page that kept nothing
StopLoop(kept) == kept = 0

\* the emptiness test left out
NothingCollected_never(rs) == FALSE

\* line 197: nothing collected
NothingCollected(rs) == rs = <<>>

NoFile == [exists |-> FALSE, rows |-> <<>>]

InitFetch ==
    /\ pc = "loop"
    /\ attempt = 1
    /\ last_err = "none"
    /\ cursor = 0
    /\ pages = 0
    /\ rows = <<>>
    /\ kept_this_page = 0
    /\ hasNextPage = TRUE
    /\ outFile = NoFile
    /\ fetched = <<>>
    /\ \/ pageCap = MaxPages /\ nodeCap = MaxNodes
       \/ pageCap = LongPages /\ nodeCap = 1

\* post_gql, lines 103-110: an attempt fails; retry, or raise after the last one
AttemptFails(kind) ==
    /\ pc = "loop"
    /\ last_err' = kind
    /\ IF LoopExhausted(attempt)
       THEN pc' = "fatal_transport" /\ attempt' = attempt
       ELSE pc' = pc /\ attempt' = attempt + 1
    /\ UNCHANGED <<cursor, pages, rows, kept_this_page, hasNextPage, outFile,
                   fetched, pageCap, nodeCap>>
    /\ UNCHANGED scoreVars

\* post_gql returns the page after `cursor` (line 101) and main processes it
\* (lines 127-195). Past the upstream's last page the page is empty.
PageReturned(stamps, hasNext) ==
    /\ pc = "loop"
    /\ IF hasNextPage
       THEN /\ Len(stamps) <= nodeCap
            /\ (pages + 1 >= pageCap => ~hasNext)
       ELSE stamps = <<>> /\ ~hasNext
    /\ LET nodes == NodesOf(pages + 1, stamps)
           kept == KeptRows(nodes)
       IN /\ pages' = pages + 1
          /\ fetched' = fetched \o nodes
          /\ hasNextPage' = hasNext
          /\ rows' = rows \o kept
          /\ kept_this_page' = Len(kept)
          /\ outFile' = IF CheckpointDue(pages + 1)
                        THEN [exists |-> TRUE, rows |-> rows \o kept]
                        ELSE outFile
          /\ IF StopLoop(Len(kept))
             THEN pc' = "after_loop" /\ cursor' = cursor
             ELSE pc' = "loop" /\ cursor' = pages + 1
    /\ attempt' = 1
    /\ last_err' = "none"
    /\ UNCHANGED <<pageCap, nodeCap>>
    /\ UNCHANGED scoreVars

\* main, lines 197-210: after the loop
Finish ==
    /\ pc = "after_loop"
    /\ IF NothingCollected(rows)
       THEN pc' = "fatal_empty" /\ outFile' = outFile
       ELSE pc' = "done" /\ outFile' = [exists |-> TRUE, rows |-> DefensiveFilter(rows)]
    /\ UNCHANGED <<attempt, last_err, cursor, pages, rows, kept_this_page,
                   hasNextPage, fetched, pageCap, nodeCap>>
    /\ UNCHANGED scoreVars

\* score.main has not been started
ScoreIdle ==
    /\ stage = "idle"
    /\ idx = 0
    /\ df = <<>>
    /\ review_rows = <<>>
    /\ author_scores = <<>>
    /\ author_breakdown = <<>>
    /\ author_top_prs = <<>>
    /\ reviewer_scores = <<>>
    /\ reviewer_top_reviews = <<>>
    /\ out = <<>>
    /\ run = 0
    /\ prev_out = <<>>

Init == InitFetch /\ ScoreIdle

Next ==
    \/ \E kind \in FailureKinds : AttemptFails(kind)
    \/ \E stamps \in PageContents(MaxNodes), hasNext \in BOOLEAN :
           PageReturned(stamps, hasNext)
    \/ Finish

Spec == Init /\ [][Next]_vars

\* ================================================================ score.py
\* weights, in points
W_BASE_PR == 10
W_SIZE_M == 4
W_SIZE_L == 8
W_TESTS_DOCS == 2
W_BUGFIX == 3
W_INFRA_TOOLING == 3
W_REVIEW == 2
W_REVIEW_EARLY == 1

\* a whole number of points, in hundredths
Points(n) == n * 100

\* (pattern, multiplier) pairs in list order; multipliers in hundredths
CORE_MULTIPLIERS ==
    << [pattern |-> "core", mult |-> 130], [pattern |-> "ops", mult |-> 125] >>
DEFAULT_MULT == 100

\* ---- bounds of the activity tables
MaxReviews == 1    \* reviews embedded in the row of a one-row table
MaxRows == 2       \* rows of a table of plain rows

\* ---- paths: a path is the sequence of its "/"-separated segments
CoreDirs == {"posthog", "plugin-server", "frontend", "backend", "hogvm", "hogql",
             "ee", "api", "src", "apps"}
OpsDirs == {"infrastructure", "terraform", "ops", "docker", "helm", "kubernetes"}
\* segments the unescaped ".github" of the second pattern matches
AnyCharGithub == {".github", "Xgithub"}
TestDocNames == {"test", "tests", "__tests__", "docs", "doc", "documentation"}
InfraNames == {".github", "ci", "infra", "infrastructure", "terraform", "docker",
               "kubernetes", "helm"}
BugWords == {"fix", "bug", "regress", "hotfix", "incident", "crash"}

\* re.IGNORECASE over the names the model uses
Lower(w) ==
    CASE w = "Tests" -> "tests"
      [] w = "Bug" -> "bug"
      [] w = "CI" -> "ci"
      [] OTHER -> w

\* pattern.search(p) for the two patterns of CORE_MULTIPLIERS: "^(dir|...)/"
PatternSearch(pattern, p) ==
    /\ Len(p) >= 2
    /\ IF pattern = "core" THEN p[1] \in CoreDirs
       ELSE p[1] \in OpsDirs \/ p[1] \in AnyCharGithub

\* TEST_DOC_RE.search(p): a whole segment, any case
TestDocSearch(p) == \E k \in 1..Len(p) : Lower(p[k]) \in TestDocNames

\* INFRA_RE.search(p): a whole segment, any case
InfraSearch(p) == \E k \in 1..Len(p) : Lower(p[k]) \in InfraNames

\* pr_size_bucket
pr_size_bucket(changed_files, additions, deletions) ==
    LET churn == additions + deletions
    IN IF changed_files <= 5 /\ churn <= 200 THEN "S"
       ELSE IF changed_files <= 20 /\ churn <= 800 THEN "M"
       ELSE "L"

RECURSIVE MultByFile(_, _)
\* the two loops nested the other way round: the first matching file decides
MultByFile(files, k) ==
    IF k > Len(files) THEN DEFAULT_MULT
    ELSE IF PatternSearch("core", files[k]) THEN CORE_MULTIPLIERS[1].mult
    ELSE IF PatternSearch("ops", files[k]) THEN CORE_MULTIPLIERS[2].mult
    ELSE MultByFile(files, k + 1)

core_multiplier_by_file(files) == MultByFile(files, 1)

RECURSIVE MultFrom(_, _)
\* the loop of core_multiplier from the k-th pair on
MultFrom(files, k) ==
    IF k > Len(CORE_MULTIPLIERS) THEN DEFAULT_MULT
    ELSE IF \E f \in 1..Len(files) :
                PatternSearch(CORE_MULTIPLIERS[k].pattern, files[f])
         THEN CORE_MULTIPLIERS[k].mult
         ELSE MultFrom(files, k + 1)

core_multiplier(files) == MultFrom(files, 1)

has_tests_or_docs(files) == \E f \in 1..Len(files) : TestDocSearch(files[f])

\* BUGFIX_RE.search(title): the title is the sequence of its words
is_bugfix(title) == \E k \in 1..Len(title) : Lower(title[k]) \in BugWords

is_infra_or_tooling(files) == \E f \in 1..Len(files) : InfraSearch(files[f])

parse_dt(t) == ((t.d * 24 + t.h) * 60 + t.m) * 60 + t.s

\* ---- dictionaries: functions whose domain is the set of keys
Get(d, k, default) == IF k \in DOMAIN d THEN d[k] ELSE default
Put(d, k, v) == [x \in (DOMAIN d) \cup {k} |-> IF x = k THEN v ELSE d[x]]

\* line 89 with "<" for "<="
IsEarly_strict(submitted_dt, created) == submitted_dt - created < 24 * 3600

\* line 89
IsEarly(submitted_dt, created) == submitted_dt - created <= 24 * 3600

RECURSIVE ReviewRowsOf(_, _)
\* lines 82-98: the review rows of one PR, reviews without submittedAt skipped
ReviewRowsOf(pr, rvs) ==
    IF rvs = <<>> THEN <<>>
    ELSE LET rv == Head(rvs)
         IN IF rv.submittedAt = <<>> THEN ReviewRowsOf(pr, Tail(rvs))
            ELSE << [reviewer |-> rv.reviewer,
                     pr_url |-> pr.url,
                     pr_title |-> pr.title,
                     submittedAt |-> rv.submittedAt[1],
                     early |-> IsEarly(parse_dt(rv.submittedAt[1]),
                                       parse_dt(pr.createdAt))] >>
                 \o ReviewRowsOf(pr, Tail(rvs))

\* lines 111-116
SizePts(pr) ==
    LET size == pr_size_bucket(pr.changedFiles, pr.additions, pr.deletions)
    IN IF size = "M" THEN W_SIZE_M ELSE IF size = "L" THEN W_SIZE_L ELSE 0

\* the multiplier applied to the base and size points only
PrPts_base_only(pr) ==
    (W_BASE_PR + SizePts(pr)) * core_multiplier(pr.files)
    + Points((IF has_tests_or_docs(pr.files) THEN W_TESTS_DOCS ELSE 0)
             + (IF is_bugfix(pr.title) THEN W_BUGFIX ELSE 0)
             + (IF is_infra_or_tooling(pr.files) THEN W_INFRA_TOOLING ELSE 0))

\* lines 118-139: pts of one PR after the multiplier, in hundredths
PrPts(pr) ==
    LET mult == core_multiplier(pr.files)
        pts0 == W_BASE_PR + SizePts(pr)
        pts1 == IF has_tests_or_docs(pr.files) THEN pts0 + W_TESTS_DOCS ELSE pts0
        pts2 == IF is_bugfix(pr.title) THEN pts1 + W_BUGFIX ELSE pts1
        pts3 == IF is_infra_or_tooling(pr.files) THEN pts2 + W_INFRA_TOOLING ELSE pts2
    IN pts3 * mult

\* lines 121-141: the reasons of one PR
Reasons(pr) ==
    <<"Merged PR">>
    \o (IF SizePts(pr) # 0 THEN <<"Size">> ELSE <<>>)
    \o (IF has_tests_or_docs(pr.files) THEN <<"Tests/Docs">> ELSE <<>>)
    \o (IF is_bugfix(pr.title) THEN <<"Bugfix/Regression">> ELSE <<>>)
    \o (IF is_infra_or_tooling(pr.files) THEN <<"Infra/Tooling">> ELSE <<>>)
    \o (IF core_multiplier(pr.files) # DEFAULT_MULT
        THEN <<"Core area multiplier">> ELSE <<>>)

\* reasons[:3]
FirstThree(q) == SubSeq(q, 1, IF Len(q) < 3 THEN Len(q) ELSE 3)

NewBreakdown == [delivery |-> 0, reviews |-> 0, leadership |-> 0]

\* the whole score added to both buckets
Attribute_both(bd, pr, pts) ==
    [bd EXCEPT !.leadership = @ + pts, !.delivery = @ + pts]

\* lines 146-149: the bucket a PR's points go to
Attribute(bd, pr, pts) ==
    IF is_infra_or_tooling(pr.files)
    THEN [bd EXCEPT !.leadership = @ + pts]
    ELSE [bd EXCEPT !.delivery = @ + pts]

\* line 169, in hundredths
ReviewPts(rv) == Points(W_REVIEW + (IF rv.early THEN W_REVIEW_EARLY ELSE 0))

\* the reviewers left out of the universe
Engineers_authors_only(a_scores, r_scores) == DOMAIN a_scores

\* line 182
Engineers(a_scores, r_scores) == (DOMAIN a_scores) \cup (DOMAIN r_scores)

\* lines 185-199: the row of one engineer
EngineerRow(eng) ==
    LET delivery == Get(Get(author_breakdown, eng, NewBreakdown), "delivery", 0)
        leadership == Get(Get(author_breakdown, eng, NewBreakdown), "leadership", 0)
        reviews_pts == Get(reviewer_scores, eng, 0)
    IN [engineer |-> eng,
        impact_score |-> delivery + leadership + reviews_pts,
        delivery |-> delivery,
        reviews |-> reviews_pts,
        leadership |-> leadership,
        why |-> <<>>]

\* the rows left in the order the set was iterated in
IsSorted_unsorted(q) == TRUE

\* line 201: sort_values("impact_score", ascending=False)
IsSorted(q) == \A a, b \in 1..Len(q) : a < b => q[a].impact_score >= q[b].impact_score

\* the orders a set can be iterated in
Orders(S) == {f \in [1..Cardinality(S) -> S] : \A a, b \in DOMAIN f : a # b => f[a] # f[b]}

Bullet(kind, n, early) == [kind |-> kind, n |-> n, early |-> early]

\* the leadership bullet decided by the delivery bucket
LeadershipBullet_delivery(r) == r.delivery > 0

\* line 224
LeadershipBullet(r) == r.leadership > 0

\* lines 206-231: the bullets of one output row
Bullets(r) ==
    LET eng == r.engineer
        prs == Get(author_top_prs, eng, <<>>)
        rvs == Get(reviewer_top_reviews, eng, <<>>)
        b1 == IF prs # <<>> THEN <<Bullet("delivery", Len(prs), 0)>> ELSE <<>>
        b2 == IF Get(reviewer_scores, eng, 0) > 0
              THEN <<Bullet("reviews", Len(rvs),
                            Len(SelectSeq(rvs, LAMBDA x : x.early)))>>
              ELSE <<>>
        b3 == IF LeadershipBullet(r) THEN <<Bullet("leadership", 0, 0)>> ELSE <<>>
        bullets == b1 \o b2 \o b3
    IN FirstThree(IF bullets = <<>> THEN <<Bullet("fallback", 0, 0)>> ELSE bullets)

\* ---- the activity tables score.main is run on
Authors == {"alice", "bob"}
Reviewers == {"bob", "carol"}
Created == Stamp(1, 12, 0, 0)
SubmittedValues == {<<>>, <<Stamp(2, 11, 59, 59)>>, <<Stamp(2, 12, 0, 0)>>,
                    <<Stamp(2, 12, 0, 1)>>}
Titles == {<<"fix", "crash", "on", "login">>, <<"Bug", "in", "export">>,
           <<"add", "prefix", "fixes">>}
P_src == <<"src", "app.py">>
P_docker == <<"docker", "Dockerfile">>
P_docs == <<"docs", "guide.md">>
P_readme == <<"README.md">>
P_fe_test == <<"frontend", "Tests", "a.ts">>
P_xgithub == <<"Xgithub", "x.yml">>
P_ci == <<"tools", "CI", "run.sh">>
FileLists == {<<>>, <<P_src>>, <<P_docker, P_src>>, <<P_docs>>, <<P_readme>>,
              <<P_fe_test>>, <<P_xgithub>>, <<P_ci, P_docs>>}
Sizes == {<<3, 50, 10>>, <<5, 150, 50>>, <<6, 100, 0>>, <<20, 800, 0>>,
          <<3, 5000, 0>>, <<21, 0, 0>>}

Review(r, t) == [reviewer |-> r, submittedAt |-> t]
ReviewLists(n) ==
    UNION {[1..k -> {Review(r, t) : r \in Reviewers, t \in SubmittedValues}] : k \in 0..n}

Row(a, t, f, z, rv) ==
    [author |-> a, title |-> t, files |-> f, changedFiles |-> z[1],
     additions |-> z[2], deletions |-> z[3], createdAt |-> Created, reviews |-> rv]

FullRows ==
    {Row(a, t, f, z, rv) : a \in Authors, t \in Titles, f \in FileLists,
                           z \in Sizes, rv \in ReviewLists(MaxReviews)}

PlainReviews ==
    {<<>>} \cup {<<Review(r, t)>> : r \in Reviewers,
                                    t \in {<<Stamp(2, 12, 0, 0)>>, <<Stamp(2, 12, 0, 1)>>}}

PlainRows ==
    {Row(a, <<"add", "feature">>, f, <<3, 50, 10>>, rv) :
        a \in Authors, f \in {<<P_src>>, <<P_docker>>}, rv \in PlainReviews}

PlainTables == UNION {[1..n -> PlainRows] : n \in 2..MaxRows}

\* the url of a row is its position in the table
Numbered(t) == [i \in 1..Len(t) |-> [url |-> i] @@ t[i]]

Tables == {Numbered(<<r>>) : r \in FullRows} \cup {Numbered(t) : t \in PlainTables}

\* fetch_data.main is not part of a scoring run
FetchIdle ==
    /\ pc = "idle"
    /\ attempt = 1
    /\ last_err = "none"
    /\ cursor = 0
    /\ pages = 0
    /\ rows = <<>>
    /\ kept_this_page = 0
    /\ hasNextPage = TRUE
    /\ outFile = NoFile
    /\ fetched = <<>>
    /\ pageCap = 0
    /\ nodeCap = 0

\* lines 70-104, 163-164: the table is read, the accumulators are empty
StartRun(t) ==
    /\ stage = "build_reviews"
    /\ idx = 1
    /\ df = t
    /\ review_rows = <<>>
    /\ author_scores = <<>>
    /\ author_breakdown = <<>>
    /\ author_top_prs = <<>>
    /\ reviewer_scores = <<>>
    /\ reviewer_top_reviews = <<>>
    /\ out = <<>>

InitScore ==
    /\ FetchIdle
    /\ \E t \in Tables : StartRun(t)
    /\ run = 1
    /\ prev_out = <<>>

\* lines 81-98: one pass of the loop that builds the review table
BuildReviewRows ==
    /\ stage = "build_reviews"
    /\ review_rows' = review_rows \o ReviewRowsOf(df[idx], df[idx].reviews)
    /\ IF idx < Len(df)
       THEN idx' = idx + 1 /\ stage' = stage
       ELSE idx' = 1 /\ stage' = "score_prs"
    /\ UNCHANGED <<df, author_scores, author_breakdown, author_top_prs,
                   reviewer_scores, reviewer_top_reviews, out, run, prev_out>>
    /\ UNCHANGED fetchVars

\* lines 106-160: one pass of the loop that scores the authored PRs
ScorePR ==
    /\ stage = "score_prs"
    /\ LET pr == df[idx]
           author == pr.author
           pts == PrPts(pr)
       IN /\ author_scores' = Put(author_scores, author,
                                  Get(author_scores, author, 0) + pts)
          /\ author_breakdown' =
                 Put(author_breakdown, author,
                     Attribute(Get(author_breakdown, author, NewBreakdown), pr, pts))
          /\ author_top_prs' =
                 Put(author_top_prs, author,
                     Append(Get(author_top_prs, author, <<>>),
                            [pts |-> pts, title |-> pr.title, url |-> pr.url,
                             why |-> FirstThree(Reasons(pr))]))
    /\ IF idx < Len(df)
       THEN idx' = idx + 1 /\ stage' = stage
       ELSE idx' = 1 /\ stage' = "score_reviews"
    /\ UNCHANGED <<df, review_rows, reviewer_scores, reviewer_top_reviews, out,
                   run, prev_out>>
    /\ UNCHANGED fetchVars

\* lines 166-179: one pass of the loop that scores the reviews
ScoreReview ==
    /\ stage = "score_reviews"
    /\ idx <= Len(review_rows)
    /\ LET rv == review_rows[idx]
           reviewer == rv.reviewer
           pts == ReviewPts(rv)
       IN /\ reviewer_scores' = Put(reviewer_scores, reviewer,
                                    Get(reviewer_scores, reviewer, 0) + pts)
          /\ reviewer_top_reviews' =
                 Put(reviewer_top_reviews, reviewer,
                     Append(Get(reviewer_top_reviews, reviewer, <<>>),
                            [pts |-> pts, pr_title |-> rv.pr_title,
                             pr_url |-> rv.pr_url, early |-> rv.early]))
    /\ idx' = idx + 1
    /\ UNCHANGED <<stage, df, review_rows, author_scores, author_breakdown,
                   author_top_prs, out, run, prev_out>>
    /\ UNCHANGED fetchVars

\* lines 182-201: the engineer table. A set is iterated in an order that
\* changes from run to run, and sort_values keeps no promise on equal keys.
Combine ==
    /\ stage = "score_reviews"
    /\ idx > Len(review_rows)
    /\ \E order \in Orders(Engineers(author_scores, reviewer_scores)) :
          LET rws == [k \in DOMAIN order |-> EngineerRow(order[k])]
          IN \E sorted \in Orders(DOMAIN rws) :
                /\ IsSorted([k \in DOMAIN rws |-> rws[sorted[k]]])
                /\ out' = [k \in DOMAIN rws |-> rws[sorted[k]]]
    /\ stage' = "evidence"
    /\ UNCHANGED <<idx, df, review_rows, author_scores, author_breakdown,
                   author_top_prs, reviewer_scores, reviewer_top_reviews, run,
                   prev_out>>
    /\ UNCHANGED fetchVars

\* lines 204-233: the "why" column
Evidence ==
    /\ stage = "evidence"
    /\ out' = [k \in DOMAIN out |-> [out[k] EXCEPT !.why = Bullets(out[k])]]
    /\ stage' = "done"
    /\ UNCHANGED <<idx, df, review_rows, author_scores, author_breakdown,
                   author_top_prs, reviewer_scores, reviewer_top_reviews, run,
                   prev_out>>
    /\ UNCHANGED fetchVars

NextScore ==
    \/ BuildReviewRows
    \/ ScorePR
    \/ ScoreReview
    \/ Combine
    \/ Evidence

SpecScore == InitScore /\ [][NextScore]_vars

\* score.main is run again on the unchanged table
Rerun ==
    /\ stage = "done"
    /\ run = 1
    /\ run' = 2
    /\ prev_out' = out
    /\ stage' = "build_reviews"
    /\ idx' = 1
    /\ df' = df
    /\ review_rows' = <<>>
    /\ author_scores' = <<>>
    /\ author_breakdown' = <<>>
    /\ author_top_prs' = <<>>
    /\ reviewer_scores' = <<>>
    /\ reviewer_top_reviews' = <<>>
    /\ out' = <<>>
    /\ UNCHANGED fetchVars

InitRerun ==
    /\ FetchIdle
    /\ \E t \in PlainTables : StartRun(Numbered(t))
    /\ run = 1
    /\ prev_out = <<>>

NextRerun == NextScore \/ Rerun

SpecRerun == InitRerun /\ [][NextRerun]_vars

\* ------------------------------------------------------- ingestion claims
InWindow(pr) == pr.mergedAt # <<>> /\ iso_to_dt(pr.mergedAt[1]) >= SINCE_DT

\* the numbers of the in-window nodes of a node sequence, in order
InWindowNumbers(nodes) ==
    LET sel == SelectSeq(nodes, InWindow)
    IN [i \in 1..Len(sel) |-> sel[i].number]

\* C1: after a successful run the activity table holds exactly the fetched
\* records whose merged time is >= the window start, each of them in-window.
C1_TableIsInWindowPart ==
    pc = "done" =>
        /\ outFile.exists
        /\ [i \in 1..Len(outFile.rows) |-> outFile.rows[i].number]
               = InWindowNumbers(fetched)
        /\ \A i \in 1..Len(outFile.rows) :
               iso_to_dt(outFile.rows[i].mergedAt) >= SINCE_DT

\* a finished run whose table holds a record that followed an out-of-window
\* record on the same page
C1_Witness ==
    /\ pc = "done"
    /\ \E i, j \in 1..Len(fetched) :
          /\ i < j
          /\ fetched[i].number \div 10 = fetched[j].number \div 10
          /\ fetched[i].mergedAt # <<>> /\ ~InWindow(fetched[i])
          /\ InWindow(fetched[j])
          /\ \E k \in 1..Len(outFile.rows) :
                 outFile.rows[k].number = fetched[j].number

\* C2: a further page is requested only while the last fetched page yielded
\* an in-window record and the upstream signalled a further page.
C2_StopsOnEitherCondition ==
    (pc = "loop" /\ pages > 0) => (kept_this_page > 0 /\ hasNextPage)

\* C3: a page request makes at most MAX_RETRIES attempts, returns at the first
\* successful one, retries after every failed one, and is fatal exactly when
\* the MAX_RETRIES-th attempt has failed.
C3_RetryContract ==
    [][ /\ attempt \in 1..MAX_RETRIES /\ attempt' \in 1..MAX_RETRIES
        /\ (pages' = pages + 1) =>
               (attempt' = 1 /\ last_err' = "none" /\ pc' # "fatal_transport")
        /\ (pc = "loop" /\ pages' = pages) =>
               /\ last_err' \in FailureKinds
               /\ IF attempt < MAX_RETRIES
                  THEN attempt' = attempt + 1 /\ pc' = "loop"
                  ELSE pc' = "fatal_transport"
        /\ (pc' = "fatal_transport") => (pc = "loop" /\ attempt = MAX_RETRIES)
      ]_vars

\* the last attempt has failed and the request is fatal
C3_Witness == pc = "fatal_transport" /\ attempt = MAX_RETRIES /\ pages > 0

\* C4: a run that collected nothing is fatal and writes no table; a successful
\* run writes a non-empty table.
C4_NeverEmptyTable ==
    /\ pc = "done" => (rows # <<>> /\ outFile.exists /\ outFile.rows # <<>>)
    /\ pc = "fatal_empty" => (rows = <<>> /\ ~outFile.exists)
    /\ outFile.exists => outFile.rows # <<>>

\* a run that fetched records, kept none and ended fatally
C4_Witness == pc = "fatal_empty" /\ fetched # <<>> /\ ~outFile.exists

\* --------------------------------------------------------- scoring claims
RECURSIVE Sum(_)
\* the sum of a sequence of numbers
Sum(q) == IF q = <<>> THEN 0 ELSE Head(q) + Sum(Tail(q))

\* the sum of the pts of a sequence of entries
SumPts(q) == Sum([k \in 1..Len(q) |-> q[k].pts])

\* seconds from a PR's creation to a review's submission, from the calendar fields
Delay(pr, rv) ==
    LET c == pr.createdAt
        t == rv.submittedAt[1]
    IN (t.d - c.d) * 86400 + (t.h - c.h) * 3600 + (t.m - c.m) * 60 + (t.s - c.s)

\* the timestamped reviews of the table, each with its PR
RECURSIVE TimedReviews(_)
TimedReviews(t) ==
    IF t = <<>> THEN <<>>
    ELSE LET pr == Head(t)
             timed == SelectSeq(pr.reviews, LAMBDA rv : rv.submittedAt # <<>>)
         IN [k \in 1..Len(timed) |-> [pr |-> pr, rv |-> timed[k]]] \o TimedReviews(Tail(t))

ReviewsScored == stage \in {"evidence", "done"}

\* the reviews bucket when a review is early iff it came less than `limit` seconds
\* after the creation
ReviewsBucket(eng, limit) ==
    LET mine == SelectSeq(TimedReviews(df), LAMBDA x : x.rv.reviewer = eng)
    IN Sum([k \in 1..Len(mine) |->
               IF Delay(mine[k].pr, mine[k].rv) < limit THEN 300 ELSE 200])

\* C5 (as claimed): a review earns 3 points instead of 2 exactly when it was
\* submitted strictly less than 24 hours after the creation of its PR.
C5_EarlyStrictlyBefore24h ==
    ReviewsScored =>
        \A eng \in Authors \cup Reviewers :
            Get(reviewer_scores, eng, 0) = ReviewsBucket(eng, 86400)

\* C5 (amended): a review earns 3 points instead of 2 exactly when it was
\* submitted at most 24 hours after the creation of its PR: at 24h00m00s it is
\* early, at 24h00m01s it is not.
C5_EarlyWithin24h ==
    /\ ReviewsScored =>
          \A eng \in Authors \cup Reviewers :
              Get(reviewer_scores, eng, 0) = ReviewsBucket(eng, 86400 + 1)
    /\ \A k \in 1..Len(review_rows) :
          /\ review_rows[k].submittedAt = Stamp(2, 11, 59, 59) => review_rows[k].early
          /\ review_rows[k].submittedAt = Stamp(2, 12, 0, 0) => review_rows[k].early
          /\ review_rows[k].submittedAt = Stamp(2, 12, 0, 1) => ~review_rows[k].early

\* a scored review that was submitted exactly 24 hours after the creation
C5_Witness ==
    /\ ReviewsScored
    /\ \E k \in 1..Len(TimedReviews(df)) :
          LET x == TimedReviews(df)[k]
          IN Delay(x.pr, x.rv) = 86400 /\ reviewer_scores[x.rv.reviewer] = 300

\* the entries of author_top_prs, all authors
TopPrEntries == {author_top_prs[a][k] : <<a, k>> \in
                    {<<a, k>> \in (DOMAIN author_top_prs) \X (1..Len(df)) :
                        k <= Len(author_top_prs[a])}}

\* the bonuses of a record, from the claim
BaseAndBonuses(pr) ==
    LET churn == pr.additions + pr.deletions
        sizeBonus == IF pr.changedFiles <= 5 /\ churn <= 200 THEN 0
                     ELSE IF pr.changedFiles <= 20 /\ churn <= 800 THEN 4 ELSE 8
    IN 10 + sizeBonus
       + (IF has_tests_or_docs(pr.files) THEN 2 ELSE 0)
       + (IF is_bugfix(pr.title) THEN 3 ELSE 0)
       + (IF is_infra_or_tooling(pr.files) THEN 3 ELSE 0)

\* the multiplier of the first pattern some path matches, in hundredths
FirstPatternMult(files) ==
    IF \E f \in 1..Len(files) : PatternSearch("core", files[f]) THEN 130
    ELSE IF \E f \in 1..Len(files) : PatternSearch("ops", files[f]) THEN 125
    ELSE 100

\* C6: the score of an authored record is its base and bonuses times the one
\* multiplier of the first pattern, in list order, that any of its paths matches
\* (1.0 without a match): 20 points at 1.3 score 26, 10 + 3 under src/ score 16.9.
C6_ScoreIsSumTimesOneMultiplier ==
    \A e \in TopPrEntries :
        LET pr == df[e.url]
        IN /\ e.pts = BaseAndBonuses(pr) * FirstPatternMult(pr.files)
           /\ (BaseAndBonuses(pr) = 20 /\ pr.files = <<P_fe_test>>) => e.pts = 2600
           /\ (pr.files = <<P_src>> /\ pr.title = <<"fix", "crash", "on", "login">>
               /\ pr.changedFiles = 3 /\ pr.additions = 50 /\ pr.deletions = 10)
              => e.pts = 1690

\* a scored record whose first path matches the second pattern and whose second
\* path matches the first, with bonuses next to the base
C6_Witness ==
    \E e \in TopPrEntries :
        /\ df[e.url].files = <<P_docker, P_src>>
        /\ BaseAndBonuses(df[e.url]) > 10
        /\ e.pts = BaseAndBonuses(df[e.url]) * 130

EntriesOf(eng) == Get(author_top_prs, eng, <<>>)
IsInfraEntry(e) == is_infra_or_tooling(df[e.url].files)

\* C7: every authored record adds its whole score to one bucket of its author,
\* leadership when a path matches the infra/tooling pattern and delivery
\* otherwise, so delivery + leadership is the sum of the author's record scores.
C7_OneBucketPerRecord ==
    /\ DOMAIN author_breakdown = DOMAIN author_top_prs
    /\ \A eng \in DOMAIN author_breakdown :
          /\ author_breakdown[eng].leadership =
                 SumPts(SelectSeq(EntriesOf(eng), IsInfraEntry))
          /\ author_breakdown[eng].delivery =
                 SumPts(SelectSeq(EntriesOf(eng), LAMBDA e : ~IsInfraEntry(e)))
          /\ author_breakdown[eng].delivery + author_breakdown[eng].leadership =
                 SumPts(EntriesOf(eng))
    /\ stage = "done" =>
          \A k \in 1..Len(out) :
              out[k].delivery + out[k].leadership =
                  SumPts(EntriesOf(out[k].engineer))

\* a contributor with an infra/tooling record and another record
C7_Witness ==
    /\ stage = "done"
    /\ \E k \in 1..Len(out) :
          /\ out[k].delivery > 0 /\ out[k].leadership > 0
          /\ Len(EntriesOf(out[k].engineer)) = 2

AuthorsOf(t) == {t[i].author : i \in 1..Len(t)}
TimedReviewersOf(t) == {TimedReviews(t)[k].rv.reviewer : k \in 1..Len(TimedReviews(t))}

\* C8: the output has one row per member of the union of the authors and the
\* reviewers of timestamped reviews; a reviewer who authored nothing has
\* delivery = leadership = 0 and reviews > 0; total = delivery + reviews + leadership.
C8_ContributorUniverse ==
    stage = "done" =>
        /\ {out[k].engineer : k \in 1..Len(out)} = AuthorsOf(df) \cup TimedReviewersOf(df)
        /\ Len(out) = Cardinality(AuthorsOf(df) \cup TimedReviewersOf(df))
        /\ \A k \in 1..Len(out) :
              /\ out[k].impact_score = out[k].delivery + out[k].reviews + out[k].leadership
              /\ out[k].engineer \notin AuthorsOf(df) =>
                     (out[k].delivery = 0 /\ out[k].leadership = 0 /\ out[k].reviews > 0)

\* an output row of somebody who only reviewed
C8_Witness ==
    /\ stage = "done"
    /\ \E k \in 1..Len(out) :
          out[k].engineer \notin AuthorsOf(df) /\ out[k].reviews > 0

SecondRunDone == run = 2 /\ stage = "done"

\* C9 (as claimed): a second run over the unchanged table yields the same rows
\* in the same order, also among contributors with equal totals.
C9_SameRowsSameOrder == SecondRunDone => out = prev_out

\* C9 (amended): a second run yields the same rows (contributors, buckets,
\* totals, bullets), both times by descending total; only the order among
\* contributors with equal totals may differ.
C9_SameRowsUpToTies ==
    SecondRunDone =>
        /\ Len(out) = Len(prev_out)
        /\ {out[k] : k \in 1..Len(out)} = {prev_out[k] : k \in 1..Len(prev_out)}
        /\ \A a, b \in 1..Len(out) :
              a < b => /\ out[a].impact_score >= out[b].impact_score
                       /\ prev_out[a].impact_score >= prev_out[b].impact_score
        /\ \A k \in 1..Len(out) : out[k].impact_score = prev_out[k].impact_score

\* two runs done over a table with two contributors of equal total
C9_Witness ==
    /\ SecondRunDone
    /\ \E a, b \in 1..Len(out) : a # b /\ out[a].impact_score = out[b].impact_score
    /\ out # prev_out

AuthoredCount(eng) == Len(SelectSeq(df, LAMBDA pr : pr.author = eng))
ReviewCount(eng) == Len(SelectSeq(review_rows, LAMBDA rv : rv.reviewer = eng))
EarlyCount(eng) == Len(SelectSeq(review_rows, LAMBDA rv : rv.reviewer = eng /\ rv.early))

\* C10: every output row has one to three bullets in the order delivery,
\* reviews, leadership: the delivery bullet iff the contributor authored a record
\* (with the count), the review bullet iff the reviews bucket is > 0 (with the
\* review and early-review counts), the leadership bullet iff the leadership
\* bucket is > 0, and the fallback bullet alone iff none of these applies.
C10_EvidenceBullets ==
    stage = "done" =>
        \A k \in 1..Len(out) :
            LET r == out[k]
                d == IF AuthoredCount(r.engineer) >= 1
                     THEN <<Bullet("delivery", AuthoredCount(r.engineer), 0)>> ELSE <<>>
                v == IF r.reviews > 0
                     THEN <<Bullet("reviews", ReviewCount(r.engineer),
                                   EarlyCount(r.engineer))>> ELSE <<>>
                l == IF r.leadership > 0 THEN <<Bullet("leadership", 0, 0)>> ELSE <<>>
            IN /\ Len(r.why) \in 1..3
               /\ r.why = IF d \o v \o l = <<>> THEN <<Bullet("fallback", 0, 0)>>
                          ELSE d \o v \o l

\* a contributor with all three bullets
C10_Witness ==
    /\ stage = "done"
    /\ \E k \in 1..Len(out) :
          /\ Len(out[k].why) = 3
          /\ out[k].why[2].n >= 1

\* C11: when a page request exhausts its retries the run aborts with no partial
\* success: no further page is requested and no table of the pages fetched so
\* far is left at data/prs_90d.parquet, also after progress checkpoints.
C11_NoPartialTableOnTransportFailure ==
    pc = "fatal_transport" =>
        /\ ~outFile.exists
        /\ ~(ENABLED (\E stamps \in PageContents(MaxNodes), hasNext \in BOOLEAN :
                          PageReturned(stamps, hasNext)))

====
